---- MODULE Spec2Model ----
(***************************************************************************)
(* Model of the ten_env logging facade                                     *)
(* (core/src/ten_runtime/ten_env/internal/log.c).                          *)
(*                                                                         *)
(* Every thread runs at most one entry point at a time.  A call is split   *)
(* where another thread can observe or disturb it: the entry (closed       *)
(* guard, TEN_ASSERT and the initialisation of final_msg, which read only  *)
(* the handle), the append of the expanded format to final_msg, and the    *)
(* submission to the global log followed by the deinit and the return.     *)
(* Strings are sequences of one-character strings.                         *)
(***************************************************************************)
EXTENDS Integers, Sequences, FiniteSets, TLC

\* ---- bounds of the model ----
\* the number of entry-point calls issued in a run
MaxCalls == 2

\* the threads of the process and the ten_env_t handles callers hold
Threads == {"t1", "t2"}
Handles == {"h1", "h2"}

\* the NULL ten_env_t pointer
NullEnv == "NULL"

\* the handles callers pass: every caller holds a live ten_env_t
Selfs == Handles

\* the build does not define OS_WINDOWS
OS_WINDOWS == FALSE

\* string terminator and the NULL char pointer
NUL == "NUL"
NullStr == <<>>

VARIABLES
  closed,       \* closed[h]: the handle's closed flag
  pc,           \* pc[t]: where thread t is inside its call
  cur,          \* cur[t]: the call thread t runs and the lengths passed down
  final_msg,    \* the ten_string_t composition buffers
  calls,        \* calls[i]: the i-th entry-point call issued (history)
  status,       \* status[i]: running | returned | closed_return | aborted
  sink,         \* records received by ten_global_log, in order of arrival
  diag,         \* writes to STDERR_FILENO, in order
  reads,        \* <<call, field>>: handle fields a call has read
  aborted       \* the call whose assertion terminated the process, or 0

vars == <<closed, pc, cur, final_msg, calls, status, sink, diag,
          reads, aborted>>

\* ---- the handle (external to log.c) ----
\* the thread a handle is bound to
owner_thread(h) == IF h = "h1" THEN "t1" ELSE "t2"

\* the attached instance name of a handle; one of them holds a conversion
\* specification, which must come out verbatim
instance_name(h) ==
  IF h = "h1" THEN <<"e", "1">> ELSE <<"%", "d", "2">>

ten_env_is_closed(h) == closed[h]

\* ten_env_check_integrity(self, check_thread), called by thread t
ten_env_check_integrity(self, check_thread, t) ==
  (~check_thread) \/ owner_thread(self) = t

\* what ten_env_check_integrity reads of the handle
IntegrityReads(id, check_thread) ==
  IF check_thread THEN {<<id, "thread">>} ELSE {}

\* ---- string helpers ----
RECURSIVE strlen(_)
strlen(s) == IF s = <<>> \/ Head(s) = NUL THEN 0 ELSE 1 + strlen(Tail(s))

DigitChar(d) == <<"0", "1", "2", "3", "4", "5", "6", "7", "8", "9">>[d + 1]

RECURSIVE Utoa(_)
Utoa(n) == IF n < 10 THEN <<DigitChar(n)>> ELSE Utoa(n \div 10) \o <<DigitChar(n % 10)>>

Itoa(n) == IF n < 0 THEN <<"-">> \o Utoa(-n) ELSE Utoa(n)

\* expansion of a printf format against an argument list: %s, %d and %%
RECURSIVE vformat(_, _)
vformat(fmt, ap) ==
  IF fmt = <<>> THEN <<>>
  ELSE IF Head(fmt) = "%" /\ Len(fmt) >= 2
    THEN IF fmt[2] = "s" THEN Head(ap) \o vformat(Tail(Tail(fmt)), Tail(ap))
         ELSE IF fmt[2] = "d" THEN Itoa(Head(ap)) \o vformat(Tail(Tail(fmt)), Tail(ap))
         ELSE IF fmt[2] = "%" THEN <<"%">> \o vformat(Tail(Tail(fmt)), ap)
         ELSE <<"%">> \o vformat(Tail(fmt), ap)
  ELSE <<Head(fmt)>> \o vformat(Tail(fmt), ap)

ten_string_init_formatted(fmt, ap) == vformat(fmt, ap)

ten_string_append_from_va_list(str, fmt, ap) == str \o vformat(fmt, ap)

\* ---- the arguments callers pass ----
\* Arg1: a category and fields, true lengths, a message holding a "%d".
\* Arg2: no category, no fields, spans shorter than the strings.
Arg1 ==
  [level |-> 1,
   func_name |-> <<"f", "n", NUL>>, func_name_len |-> 2,
   file_name |-> <<"a", ".", "c", NUL>>, file_name_len |-> 3,
   line_no |-> 7,
   category |-> <<"k", NUL>>, category_len |-> 1,
   fields |-> "fields",
   msg |-> <<"%", "d", "!">>,
   fmt |-> <<"%", "d", " ", "i">>, ap |-> <<15>>]

Arg2 ==
  [level |-> 2,
   func_name |-> <<"g", "o", NUL>>, func_name_len |-> 1,
   file_name |-> <<"b", NUL>>, file_name_len |-> 0,
   line_no |-> 9,
   category |-> NullStr, category_len |-> 0,
   fields |-> "NULL",
   msg |-> <<"m">>,
   fmt |-> <<"x", "%", "%">>, ap |-> <<>>]

Args == {Arg1, Arg2}

NoCall == [id |-> 0]

Init ==
  /\ closed = [h \in Handles |-> FALSE]
  /\ pc = [t \in Threads |-> "idle"]
  /\ cur = [t \in Threads |-> NoCall]
  /\ final_msg = [t \in Threads |-> <<>>]
  /\ calls = <<>>
  /\ status = <<>>
  /\ sink = <<>>
  /\ diag = <<>>
  /\ reads = {}
  /\ aborted = 0

\* The owning thread of a handle closes it, between its own calls (the flag
\* never reverts).
Close(h) ==
  /\ aborted = 0
  /\ pc[owner_thread(h)] = "idle"
  /\ ~closed[h]
  /\ closed' = [closed EXCEPT ![h] = TRUE]
  /\ UNCHANGED <<pc, cur, final_msg, calls, status, sink, diag,
                 reads, aborted>>

\* ---- common steps ----
NewCall(t, self, entry, a) ==
  [thread |-> t, self |-> self, entry |-> entry, a |-> a,
   closed_at_entry |-> (self \in Handles /\ closed[self])]

\* thread t starts call number Len(calls) + 1 of an entry point
Issue(t, self, entry, a) ==
  /\ aborted = 0
  /\ pc[t] = "idle"
  /\ Len(calls) < MaxCalls
  /\ calls' = Append(calls, NewCall(t, self, entry, a))

\* faulty variant: one static buffer shared by all activations
FinalMsgStatic(t) == "t1"

\* the composition buffer of an activation: final_msg has automatic storage

FinalMsgSlot(t) == t

\* faulty variant: the arguments of the format in the wrong order
ComposeDirectSwapped(name, msg) ==
  ten_string_init_formatted(<<"[", "%", "s", "]", " ", "%", "s">>, <<msg, name>>)

\* ten_string_init_formatted(&final_msg, "[%s] %s", name, msg)
ComposeDirect(name, msg) ==
  ten_string_init_formatted(<<"[", "%", "s", "]", " ", "%", "s">>, <<name, msg>>)

\* ten_string_init_formatted(&final_msg, "[%s] ", name)
ComposePrefix(name) ==
  ten_string_init_formatted(<<"[", "%", "s", "]", " ">>, <<name>>)

\* The head of both internal functions, run by thread t for a new call:
\* TEN_ASSERT(self && ten_env_check_integrity(self, check_thread)), then the
\* declaration and initialisation of final_msg with the instance name, which
\* ten_env_get_attached_instance_name resolves under the same check_thread.
\* A failed assertion terminates the process.
InternalHead(t, self, a, entry, check_thread, composed, next, func_name_len, file_name_len, guard_reads) ==
  /\ Issue(t, self, entry, a)
  /\ IF self # NullEnv /\ ten_env_check_integrity(self, check_thread, t)
     THEN /\ reads' = reads \cup guard_reads
                        \cup IntegrityReads(Len(calls) + 1, check_thread)
                        \cup {<<Len(calls) + 1, "name">>}
          /\ final_msg' = [final_msg EXCEPT ![FinalMsgSlot(t)] = composed]
          /\ status' = Append(status, "running")
          /\ cur' = [cur EXCEPT ![t] =
                       [id |-> Len(calls) + 1,
                        func_name_len |-> func_name_len,
                        file_name_len |-> file_name_len]]
          /\ pc' = [pc EXCEPT ![t] = next]
          /\ UNCHANGED aborted
     ELSE /\ reads' = reads \cup guard_reads
                        \cup (IF self = NullEnv THEN {}
                              ELSE IntegrityReads(Len(calls) + 1, check_thread))
          /\ aborted' = Len(calls) + 1
          /\ status' = Append(status, "aborted")
          /\ pc' = [pc EXCEPT ![t] = "aborted"]
          /\ UNCHANGED <<final_msg, cur>>
  /\ UNCHANGED <<closed, sink, diag>>

\* ten_env_log_internal up to the call of ten_log_log
ten_env_log_internal(t, self, a, entry, check_thread, guard_reads) ==
  InternalHead(t, self, a, entry, check_thread,
               ComposeDirect(instance_name(self), a.msg), "log_submit",
               0, 0, guard_reads)

\* ten_env_log_with_size_formatted_internal up to ten_string_append_from_va_list
ten_env_log_with_size_formatted_internal(t, self, a, entry, func_name_len, file_name_len, check_thread) ==
  InternalHead(t, self, a, entry, check_thread,
               ComposePrefix(instance_name(self)), "fmt_append",
               func_name_len, file_name_len, {})

\* the literal of the closed-handle diagnostic, up to its conversion
ClosedTag == "ten_env_log failed due to closed: "

\* ---- public entry points ----
\* faulty variant: no closed guard
ten_env_log_unguarded(t, self, a) ==
  ten_env_log_internal(t, self, a, "ten_env_log", TRUE, {})

ten_env_log(t, self, a) ==
  IF ten_env_is_closed(self)
  THEN /\ Issue(t, self, "ten_env_log", a)
       /\ reads' = reads \cup {<<Len(calls) + 1, "closed">>}
       /\ diag' = IF OS_WINDOWS THEN diag
                  ELSE Append(diag,
                         [call |-> Len(calls) + 1,
                          text |-> vformat(<<ClosedTag, "%", "s", "\n">>, <<a.msg>>)])
       /\ status' = Append(status, "closed_return")
       /\ UNCHANGED <<closed, pc, cur, final_msg, sink, aborted>>
  ELSE ten_env_log_internal(t, self, a, "ten_env_log", TRUE,
                            {<<Len(calls) + 1, "closed">>})

\* faulty variant: the closed guard of ten_env_log copied into the unchecked entry
ten_env_log_without_check_thread_guarded(t, self, a) ==
  IF ten_env_is_closed(self)
  THEN /\ Issue(t, self, "ten_env_log_without_check_thread", a)
       /\ reads' = reads \cup {<<Len(calls) + 1, "closed">>}
       /\ diag' = Append(diag, [call |-> Len(calls) + 1,
                                text |-> vformat(<<ClosedTag, "%", "s", "\n">>, <<a.msg>>)])
       /\ status' = Append(status, "closed_return")
       /\ UNCHANGED <<closed, pc, cur, final_msg, sink, aborted>>
  ELSE ten_env_log_internal(t, self, a, "ten_env_log_without_check_thread", FALSE,
                            {<<Len(calls) + 1, "closed">>})

ten_env_log_without_check_thread(t, self, a) ==
  ten_env_log_internal(t, self, a, "ten_env_log_without_check_thread", FALSE, {})

\* faulty variant: check_thread = true
ten_env_log_with_size_formatted_without_check_thread_enforcing(t, self, a) ==
  ten_env_log_with_size_formatted_internal(
    t, self, a, "ten_env_log_with_size_formatted_without_check_thread",
    a.func_name_len, a.file_name_len, TRUE)

ten_env_log_with_size_formatted_without_check_thread(t, self, a) ==
  ten_env_log_with_size_formatted_internal(
    t, self, a, "ten_env_log_with_size_formatted_without_check_thread",
    a.func_name_len, a.file_name_len, FALSE)

ten_env_log_with_size_formatted(t, self, a) ==
  ten_env_log_with_size_formatted_internal(
    t, self, a, "ten_env_log_with_size_formatted",
    a.func_name_len, a.file_name_len, TRUE)

\* faulty variant: check_thread = false
ten_env_log_formatted_unchecked(t, self, a) ==
  ten_env_log_with_size_formatted_internal(
    t, self, a, "ten_env_log_formatted",
    strlen(a.func_name), strlen(a.file_name), FALSE)

\* faulty variant: the two strlen results exchanged
ten_env_log_formatted_swapped_len(t, self, a) ==
  ten_env_log_with_size_formatted_internal(
    t, self, a, "ten_env_log_formatted",
    strlen(a.file_name), strlen(a.func_name), TRUE)

ten_env_log_formatted(t, self, a) ==
  ten_env_log_with_size_formatted_internal(
    t, self, a, "ten_env_log_formatted",
    strlen(a.func_name), strlen(a.file_name), TRUE)

\* ---- the rest of the internal functions ----
\* the parameters of the internal function thread t is in
Self(t) == calls[cur[t].id].self

Params(t) == calls[cur[t].id].a

\* the submission, ten_string_deinit(&final_msg) and the return
SubmitAndReturn(t, here, newsink) ==
  /\ aborted = 0
  /\ pc[t] = here
  /\ sink' = newsink
  /\ final_msg' = [final_msg EXCEPT ![FinalMsgSlot(t)] = <<>>]
  /\ status' = [status EXCEPT ![cur[t].id] = "returned"]
  /\ pc' = [pc EXCEPT ![t] = "idle"]
  /\ cur' = [cur EXCEPT ![t] = NoCall]
  /\ UNCHANGED <<closed, calls, diag, reads, aborted>>

\* the arguments of ten_log_log
PlainRecord(id, level, func_name, file_name, line_no, msg, category, fields) ==
  [call |-> id,
   rec |-> [form |-> "plain", level |-> level, func_name |-> func_name,
            file_name |-> file_name, line_no |-> line_no, msg |-> msg,
            category |-> category, fields |-> fields]]

\* the arguments of ten_log_log_with_size
SizedRecord(id, level, func_name, func_name_len, file_name, file_name_len, line_no, msg, msg_len, category, category_len, fields) ==
  [call |-> id,
   rec |-> [form |-> "sized", level |-> level,
            func_name |-> func_name, func_name_len |-> func_name_len,
            file_name |-> file_name, file_name_len |-> file_name_len,
            line_no |-> line_no, msg |-> msg, msg_len |-> msg_len,
            category |-> category, category_len |-> category_len,
            fields |-> fields]]

ten_string_get_raw_str(str) == str

ten_string_len(str) == Len(str)

\* faulty variant: func_name and file_name exchanged
LogRecordSwapped(t) ==
  PlainRecord(cur[t].id, Params(t).level, Params(t).file_name, Params(t).func_name,
              Params(t).line_no, ten_string_get_raw_str(final_msg[FinalMsgSlot(t)]),
              Params(t).category, Params(t).fields)

\* ten_log_log(&ten_global_log, ...) of ten_env_log_internal
LogRecord(t) ==
  PlainRecord(cur[t].id, Params(t).level, Params(t).func_name, Params(t).file_name,
              Params(t).line_no, ten_string_get_raw_str(final_msg[FinalMsgSlot(t)]),
              Params(t).category, Params(t).fields)

\* faulty variant: the record is put in front of the records already delivered
ten_env_log_internal_submit_queued(t) ==
  SubmitAndReturn(t, "log_submit", <<LogRecord(t)>> \o sink)

ten_env_log_internal_submit(t) ==
  SubmitAndReturn(t, "log_submit", Append(sink, LogRecord(t)))

\* ten_string_append_from_va_list(&final_msg, fmt, ap)
ten_env_log_with_size_formatted_internal_append(t) ==
  /\ aborted = 0
  /\ pc[t] = "fmt_append"
  /\ final_msg' = [final_msg EXCEPT ![FinalMsgSlot(t)] =
       ten_string_append_from_va_list(final_msg[FinalMsgSlot(t)],
                                      Params(t).fmt, Params(t).ap)]
  /\ pc' = [pc EXCEPT ![t] = "fmt_submit"]
  /\ UNCHANGED <<closed, cur, calls, status, sink, diag, reads, aborted>>

\* ten_log_log_with_size(&ten_global_log, ...)
FmtRecord(t) ==
  SizedRecord(cur[t].id, Params(t).level, Params(t).func_name, cur[t].func_name_len,
              Params(t).file_name, cur[t].file_name_len, Params(t).line_no,
              ten_string_get_raw_str(final_msg[FinalMsgSlot(t)]),
              ten_string_len(final_msg[FinalMsgSlot(t)]),
              Params(t).category, Params(t).category_len, Params(t).fields)

\* faulty variant: the record is submitted twice
ten_env_log_with_size_formatted_internal_submit_twice(t) ==
  SubmitAndReturn(t, "fmt_submit", Append(Append(sink, FmtRecord(t)), FmtRecord(t)))

ten_env_log_with_size_formatted_internal_submit(t) ==
  SubmitAndReturn(t, "fmt_submit", Append(sink, FmtRecord(t)))

Next ==
  \/ \E h \in Handles : Close(h)
  \/ \E t \in Threads, self \in Selfs, a \in Args : ten_env_log(t, self, a)
  \/ \E t \in Threads, self \in Selfs, a \in Args :
       ten_env_log_without_check_thread(t, self, a)
  \/ \E t \in Threads, self \in Selfs, a \in Args :
       ten_env_log_with_size_formatted_without_check_thread(t, self, a)
  \/ \E t \in Threads, self \in Selfs, a \in Args :
       ten_env_log_with_size_formatted(t, self, a)
  \/ \E t \in Threads, self \in Selfs, a \in Args : ten_env_log_formatted(t, self, a)
  \/ \E t \in Threads : ten_env_log_internal_submit(t)
  \/ \E t \in Threads : ten_env_log_with_size_formatted_internal_append(t)
  \/ \E t \in Threads : ten_env_log_with_size_formatted_internal_submit(t)

Spec == Init /\ [][Next]_vars

\* ---- vocabulary of the properties ----
CheckedEntries ==
  {"ten_env_log", "ten_env_log_formatted", "ten_env_log_with_size_formatted"}

UncheckedEntries ==
  {"ten_env_log_without_check_thread",
   "ten_env_log_with_size_formatted_without_check_thread"}

DirectEntries == {"ten_env_log", "ten_env_log_without_check_thread"}

CallIds == 1..Len(calls)

\* positions of the sink holding a record of call id
RecordsOf(id) == {i \in 1..Len(sink) : sink[i].call = id}

\* positions of the diagnostic stream written by call id
DiagsOf(id) == {i \in 1..Len(diag) : diag[i].call = id}

\* the message body of a call: the supplied message, or the expanded format
BodyOf(c) == IF c.entry \in DirectEntries THEN c.a.msg ELSE vformat(c.a.fmt, c.a.ap)

\* "[" + name(H) + "] " + body
Prefixed(h, body) == <<"[">> \o instance_name(h) \o <<"]", " ">> \o body

ByOwner(c) == c.thread = owner_thread(c.self)

InFlight(t) == pc[t] \in {"log_submit", "fmt_append", "fmt_submit"}

C2_ForeignThreadIsFatal ==
  \A id \in CallIds :
    (/\ calls[id].entry \in CheckedEntries
     /\ ~calls[id].closed_at_entry
     /\ ~ByOwner(calls[id])) =>
      /\ status[id] = "aborted"
      /\ aborted = id
      /\ <<id, "name">> \notin reads
      /\ RecordsOf(id) = {}

C2_Witness ==
  \E id \in CallIds :
    /\ calls[id].entry = "ten_env_log_formatted"
    /\ ~calls[id].closed_at_entry
    /\ ~ByOwner(calls[id])
    /\ status[id] = "aborted"

\* C3: a checked entry point called on an open handle by its owning thread
\* submits a record, and the message of the record is exactly
\* "[" + name(H) + "] " + body.
C3_PrefixedMessage ==
  \A id \in CallIds :
    (/\ calls[id].entry \in CheckedEntries
     /\ ~calls[id].closed_at_entry
     /\ ByOwner(calls[id])) =>
      /\ status[id] = "returned" => RecordsOf(id) # {}
      /\ \A i \in RecordsOf(id) :
           sink[i].rec.msg = Prefixed(calls[id].self, BodyOf(calls[id]))

\* both shapes have delivered: a direct message that holds a "%d", under an
\* instance name that holds a "%d", and an expanded format
C3_Witness ==
  /\ \E i \in 1..Len(sink) :
       /\ calls[sink[i].call].entry = "ten_env_log"
       /\ calls[sink[i].call].self = "h2"
       /\ calls[sink[i].call].a = Arg1
  /\ \E i \in 1..Len(sink) :
       /\ calls[sink[i].call].entry \in {"ten_env_log_formatted",
                                         "ten_env_log_with_size_formatted"}
       /\ ByOwner(calls[sink[i].call])
       /\ calls[sink[i].call].a = Arg1

\* C4: an unchecked entry point called on a non-closed handle by any thread
\* never aborts and never reads the owning thread; when it has returned, one
\* record of it is in the sink.
C4_UncheckedNeverFatal ==
  \A id \in CallIds :
    (calls[id].entry \in UncheckedEntries /\ ~calls[id].closed_at_entry) =>
      /\ status[id] # "aborted"
      /\ <<id, "thread">> \notin reads
      /\ status[id] = "returned" => Cardinality(RecordsOf(id)) = 1

C4_Witness ==
  \E id \in CallIds :
    /\ calls[id].entry = "ten_env_log_with_size_formatted_without_check_thread"
    /\ ~calls[id].closed_at_entry
    /\ ~ByOwner(calls[id])
    /\ status[id] = "returned"
    /\ RecordsOf(id) # {}

\* C5: the records of calls made on one handle by its owning thread are in
\* the sink in the order the calls were issued.
C5_DeliveredInIssueOrder ==
  \A i, j \in 1..Len(sink) :
    (/\ i < j
     /\ calls[sink[i].call].self = calls[sink[j].call].self
     /\ ByOwner(calls[sink[i].call])
     /\ ByOwner(calls[sink[j].call])) =>
      sink[i].call < sink[j].call

\* two calls of different entry points on one handle, both by its owner, both
\* delivered
C5_Witness ==
  \E i, j \in 1..Len(sink) :
    /\ i < j
    /\ calls[sink[i].call].self = calls[sink[j].call].self
    /\ ByOwner(calls[sink[i].call])
    /\ ByOwner(calls[sink[j].call])
    /\ calls[sink[i].call].entry = "ten_env_log_formatted"
    /\ calls[sink[j].call].entry = "ten_env_log"

\* what final_msg of an activation holds at each point of the call
ExpectedFinalMsg(t) ==
  IF pc[t] = "fmt_append"
  THEN Prefixed(Self(t), <<>>)
  ELSE Prefixed(Self(t), BodyOf(calls[cur[t].id]))

\* checked calls on distinct handles, each by the owner of its handle
OwnCheckedPair(c, d) ==
  /\ c.self # d.self
  /\ c.entry \in CheckedEntries /\ ByOwner(c)
  /\ d.entry \in CheckedEntries /\ ByOwner(d)

\* C6: while checked calls on distinct handles run concurrently, each on the
\* owning thread of its handle, the composition buffer of each holds only its
\* own name and body, and so does the message of each record they deliver.
C6_NoCrossTalk ==
  /\ \A t, u \in Threads :
       (/\ t # u /\ InFlight(t) /\ InFlight(u)
        /\ OwnCheckedPair(calls[cur[t].id], calls[cur[u].id])) =>
         final_msg[t] = ExpectedFinalMsg(t)
  /\ \A i, j \in 1..Len(sink) :
       OwnCheckedPair(calls[sink[i].call], calls[sink[j].call]) =>
         sink[i].rec.msg =
           Prefixed(calls[sink[i].call].self, BodyOf(calls[sink[i].call]))

\* two such calls are in flight together, one past its append
C6_Witness ==
  /\ pc["t1"] = "fmt_submit"
  /\ pc["t2"] \in {"fmt_append", "log_submit"}
  /\ OwnCheckedPair(calls[cur["t1"].id], calls[cur["t2"].id])

\* C7: ten_env_log_formatted and ten_env_log_with_size_formatted, called on
\* the same handle by its owner with the same arguments, the lengths given to
\* the latter being the true lengths of the names, submit equal records.
C7_FormattedVariantsAgree ==
  \A i, j \in 1..Len(sink) :
    (/\ calls[sink[i].call].entry = "ten_env_log_formatted"
     /\ calls[sink[j].call].entry = "ten_env_log_with_size_formatted"
     /\ calls[sink[i].call].self = calls[sink[j].call].self
     /\ calls[sink[i].call].a = calls[sink[j].call].a
     /\ calls[sink[j].call].a.func_name_len = strlen(calls[sink[j].call].a.func_name)
     /\ calls[sink[j].call].a.file_name_len = strlen(calls[sink[j].call].a.file_name)) =>
      sink[i].rec = sink[j].rec

C7_Witness ==
  \E i, j \in 1..Len(sink) :
    /\ calls[sink[i].call].entry = "ten_env_log_formatted"
    /\ calls[sink[j].call].entry = "ten_env_log_with_size_formatted"
    /\ calls[sink[i].call].self = calls[sink[j].call].self
    /\ calls[sink[i].call].a = Arg1
    /\ calls[sink[j].call].a = Arg1

\* C8: every record in the sink carries the level, function name, file name,
\* line number, category and fields its caller passed; a length-qualified
\* record also carries the category length passed, and the name lengths
\* passed to a with_size entry point.
C8_MetadataForwarded ==
  \A i \in 1..Len(sink) :
    /\ sink[i].rec.level = calls[sink[i].call].a.level
    /\ sink[i].rec.func_name = calls[sink[i].call].a.func_name
    /\ sink[i].rec.file_name = calls[sink[i].call].a.file_name
    /\ sink[i].rec.line_no = calls[sink[i].call].a.line_no
    /\ sink[i].rec.category = calls[sink[i].call].a.category
    /\ sink[i].rec.fields = calls[sink[i].call].a.fields
    /\ sink[i].rec.form = "sized" =>
         sink[i].rec.category_len = calls[sink[i].call].a.category_len
    /\ calls[sink[i].call].entry \in
         {"ten_env_log_with_size_formatted",
          "ten_env_log_with_size_formatted_without_check_thread"} =>
         /\ sink[i].rec.func_name_len = calls[sink[i].call].a.func_name_len
         /\ sink[i].rec.file_name_len = calls[sink[i].call].a.file_name_len

\* a plain record and a length-qualified record whose spans are shorter than
\* the strings have both been delivered
C8_Witness ==
  /\ \E i \in 1..Len(sink) : sink[i].rec.form = "plain"
  /\ \E i \in 1..Len(sink) :
       /\ sink[i].rec.form = "sized"
       /\ calls[sink[i].call].entry # "ten_env_log_formatted"
       /\ calls[sink[i].call].a = Arg2

\* C9: ten_env_log_without_check_thread on a closed handle never reads the
\* closed flag nor the owning thread and writes no diagnostic; it resolves
\* the instance name and, once returned, has submitted one prefixed record.
\* ten_env_log on a closed handle submits nothing.
C9_UncheckedDirectSkipsGuard ==
  \A id \in CallIds :
    /\ (calls[id].entry = "ten_env_log_without_check_thread"
        /\ calls[id].closed_at_entry) =>
         /\ <<id, "closed">> \notin reads
         /\ <<id, "thread">> \notin reads
         /\ <<id, "name">> \in reads
         /\ DiagsOf(id) = {}
         /\ status[id] \in {"running", "returned"}
         /\ status[id] = "returned" => Cardinality(RecordsOf(id)) = 1
         /\ \A i \in RecordsOf(id) :
              sink[i].rec.msg = Prefixed(calls[id].self, calls[id].a.msg)
    /\ (calls[id].entry = "ten_env_log" /\ calls[id].closed_at_entry) =>
         RecordsOf(id) = {}

\* both direct entry points were called on the same closed handle
C9_Witness ==
  \E id, jd \in CallIds :
    /\ calls[id].entry = "ten_env_log_without_check_thread"
    /\ calls[jd].entry = "ten_env_log"
    /\ calls[id].self = calls[jd].self
    /\ calls[id].closed_at_entry /\ calls[jd].closed_at_entry
    /\ status[id] = "returned" /\ RecordsOf(id) # {}
    /\ status[jd] = "closed_return"

\* C10: the sink holds one record for each call that has returned from an
\* internal function and none for any other call: a call on the closed-handle
\* path or the fatal path submits nothing, so the number of records equals
\* the number of calls that returned without taking the closed-handle path.
C10_OneRecordPerReturn ==
  /\ \A id \in CallIds :
       Cardinality(RecordsOf(id)) = IF status[id] = "returned" THEN 1 ELSE 0
  /\ Len(sink) = Cardinality({id \in CallIds : status[id] = "returned"})

\* one call has returned from ten_env_log_with_size_formatted_internal and
\* another took the closed-handle path or the fatal path
C10_Witness ==
  /\ \E id \in CallIds :
       status[id] = "returned" /\ calls[id].entry \notin DirectEntries
  /\ \E id \in CallIds : status[id] \in {"closed_return", "aborted"}
====
